---- MODULE Spec2Model ----
(***************************************************************************)
(* The payload job scheduler of crates/payload/basic/src/lib.rs:            *)
(* BasicPayloadJobGenerator, BasicPayloadJob (the driver future), the       *)
(* spawned build tasks with the shared semaphore, the Cancelled marker,     *)
(* and ResolveBestPayload.                                                  *)
(*                                                                         *)
(* The two tokio timers of a job are event sources: the Sleep of the        *)
(* deadline has fired or not; the Interval has a tick due (tick), or a      *)
(* full period to go (neither tick nor elapsed), or less than a full period *)
(* to go (elapsed).                                                         *)
(* Option<T> is a sequence: None is << >>, Some(x) is <<x>>.                *)
(*                                                                         *)
(* Two fields are history only, written but never read by an action:        *)
(* jobs[j].prev (the payload the stored best replaced) and jobs[j].last     *)
(* (the kind of the outcome the driver consumed last); so is                *)
(* rf[j].missing (what on_missing_payload returned to resolve()).           *)
(*                                                                         *)
(* ret is what the last call of new_payload_job, of best_payload() or of    *)
(* one of the pure functions returned, with the arguments of the call.      *)
(***************************************************************************)
EXTENDS Integers, Sequences, FiniteSets, TLC

VARIABLES permits, jobs, tasks, rf, ret, lookup

vars == <<permits, jobs, tasks, rf, ret, lookup>>

----------------------------------------------------------------------------
(* Bounds of the model *)

\* total number of build tasks spawned in one behaviour
MaxTasks == 3
\* fee totals range over 0..MaxFee
MaxFee == 2
\* BasicPayloadJobGeneratorConfig.max_payload_tasks
MaxPayloadTasks == 1
\* the client knows at most MaxBlocks blocks
MaxBlocks == 1
\* slot timestamps range over 0..MaxTime seconds, the system clock from one
\* second before the unix epoch to MaxTime seconds after it
MaxTime == 4
\* the clock is read in units of 1/SubSec of a second
SubSec == 2
\* BasicPayloadJobGeneratorConfig.deadline ranges over 0..MaxDeadline units
MaxDeadline == 2

Jobs == {1, 2}
TaskIds == 1..MaxTasks
Fees == 0..MaxFee
\* block hashes: B256::ZERO, the hashes of the blocks a client can know, and
\* one hash that no client knows
ZeroHash == 0
Hashes == ZeroHash..(MaxBlocks + 1)

----------------------------------------------------------------------------
(* Data *)

None == << >>
Some(x) == <<x>>

\* BuiltPayload: the fee total, and where the payload came from
\* (the header is kept for the empty payload only)
Header(parent_hash, number) ==
    [parent_hash |-> parent_hash, number |-> number, gas_used |-> 0,
     transactions_root |-> "EMPTY_TRANSACTIONS"]
NoHeader == [Header(0, 0) EXCEPT !.transactions_root = "none"]
BuiltPayload(f, by, t) == [fees |-> f, by |-> by, task |-> t, header |-> NoHeader]
NoPayload == BuiltPayload(0, "none", 0)

\* CachedReads::default()
EmptyCache == {}

\* Result<BuildOutcome, PayloadBuilderError> as received from the oneshot
NoRes == [kind |-> "none", payload |-> NoPayload, fees |-> 0, cache |-> EmptyCache]
Better(p, c) == [kind |-> "Better", payload |-> p, fees |-> p.fees, cache |-> c]
Aborted(f, c) == [kind |-> "Aborted", payload |-> NoPayload, fees |-> f, cache |-> c]
CancelledOutcome == [NoRes EXCEPT !.kind = "Cancelled"]
BuilderError == [NoRes EXCEPT !.kind = "Err"]
ChannelClosed == [NoRes EXCEPT !.kind = "Closed"]

\* a slot of the task table that no spawn has used yet
IdleTask == [job |-> 0, st |-> "idle", best |-> None, cache |-> EmptyCache,
             cancel |-> FALSE, res |-> NoRes]

\* a task that ended and whose result was received or dropped: nothing of it
\* is left
Finished == [IdleTask EXCEPT !.st = "finished", !.cancel = TRUE]

\* a task that ended after its handle was dropped: its result was sent to
\* no receiver
Discarded == [Finished EXCEPT !.st = "discarded"]

\* PayloadBuilderAttributes: the parent id
Attributes == [parent : Hashes]

\* SealedBlock: the parent block of a job, with the hash it was sealed with
SealedBlock(number, hash) == [number |-> number, hash |-> hash]

\* PayloadConfig
PayloadConfig(parent_block, attributes) ==
    [parent_block |-> parent_block, attributes |-> attributes]
NoConfig == PayloadConfig(SealedBlock(0, ZeroHash), [parent |-> ZeroHash])

NoJob == [st |-> "none", deadline |-> FALSE, tick |-> FALSE, elapsed |-> FALSE,
          best |-> None,
          pending |-> 0, cached |-> None, prev |-> None, last |-> "none",
          config |-> NoConfig]

\* (config: the PayloadConfig moved into the empty-payload task)
NoResolve == [st |-> "none", best |-> None, maybe_better |-> 0, empty |-> "none",
              keep |-> "none", missing |-> "uncalled", out |-> NoRes,
              config |-> NoConfig]

----------------------------------------------------------------------------
(* Pure functions *)

\* (variant: nothing is better than no payload)
is_better_payload_NoneLoses(best_payload, new_fees) ==
    IF best_payload # None THEN new_fees > best_payload[1].fees ELSE FALSE

\* (variant: a tie counts as better)
is_better_payload_ge(best_payload, new_fees) ==
    IF best_payload # None THEN new_fees >= best_payload[1].fees ELSE TRUE

is_better_payload(best_payload, new_fees) ==
    IF best_payload # None THEN new_fees > best_payload[1].fees ELSE TRUE

\* a Duration d is d units; Duration::from_secs
from_secs(secs) == secs * SubSec

\* Duration::saturating_sub
saturating_sub(a, b) == IF a >= b THEN a - b ELSE 0

\* Duration::min
min(a, b) == IF a <= b THEN a ELSE b

\* SystemTime::now().duration_since(UNIX_EPOCH).unwrap_or_default(), now being
\* the system clock in units since the epoch (negative: before it)
unix_now(now) == IF now >= 0 THEN now ELSE 0

\* (variant: the subtraction does not saturate)
duration_until_Plain(unix_timestamp_secs, now) ==
    from_secs(unix_timestamp_secs) - unix_now(now)

duration_until(unix_timestamp_secs, now) ==
    LET timestamp == from_secs(unix_timestamp_secs)
    IN  saturating_sub(timestamp, unix_now(now))

\* (variant: the time until the timestamp is not capped)
max_job_duration_Uncapped(deadline, unix_timestamp, now) ==
    deadline + duration_until(unix_timestamp, now)

\* BasicPayloadJobGenerator::max_job_duration, deadline being
\* self.config.deadline
max_job_duration(deadline, unix_timestamp, now) ==
    LET duration_until_timestamp == min(duration_until(unix_timestamp, now), deadline * 3)
    IN  deadline + duration_until_timestamp

----------------------------------------------------------------------------
(* Build tasks *)

NumSpawned == Cardinality({t \in TaskIds : tasks[t].st # "idle"})
FreeTask == NumSpawned + 1

\* the PendingPayload of task t is still owned by a job or by a resolve future
Held(t) == \E j \in Jobs : jobs[j].pending = t \/ rf[j].maybe_better = t

\* (variant: the permit is taken when the task is spawned)
NewTask_AcquiresAtSpawn(j) ==
    [job |-> j, st |-> "building", best |-> jobs[j].best,
     cache |-> IF jobs[j].cached = None THEN EmptyCache ELSE jobs[j].cached[1],
     cancel |-> FALSE, res |-> NoRes]

\* (variant: the build is not told the best payload of the job)
NewTask_NoBest(j) ==
    [job |-> j, st |-> "waiting", best |-> None,
     cache |-> IF jobs[j].cached = None THEN EmptyCache ELSE jobs[j].cached[1],
     cancel |-> FALSE, res |-> NoRes]

\* the async block handed to spawn_blocking, before it runs
NewTask(j) ==
    [job |-> j, st |-> "waiting", best |-> jobs[j].best,
     cache |-> IF jobs[j].cached = None THEN EmptyCache ELSE jobs[j].cached[1],
     cancel |-> FALSE, res |-> NoRes]

\* PayloadBuilder::try_build: the outcomes a builder may return for the
\* arguments of task t
try_build(t) ==
    LET args == tasks[t]
        cached_reads == args.cache \cup {t}
    IN  {Better(BuiltPayload(f, "build", t), cached_reads) :
             f \in {g \in Fees : is_better_payload(args.best, g)}}
        \cup {Aborted(f, cached_reads) :
             f \in {g \in Fees : ~is_better_payload(args.best, g)}}
        \cup {BuilderError}
        \cup (IF args.cancel THEN {CancelledOutcome} ELSE {})

\* (variant: the task does not wait for a permit)
TaskAcquire_NoWait(t) ==
    /\ tasks[t].st = "waiting"
    /\ permits' = permits - 1
    /\ tasks' = [tasks EXCEPT ![t].st = "building"]
    /\ UNCHANGED <<lookup, ret, jobs, rf>>

\* guard.0.acquire().await
TaskAcquire(t) ==
    /\ tasks[t].st = "waiting"
    /\ permits > 0
    /\ permits' = permits - 1
    /\ tasks' = [tasks EXCEPT ![t].st = "building"]
    /\ UNCHANGED <<lookup, ret, jobs, rf>>

\* (variant: the result stays in the channel though the receiver is gone)
Send_KeepsResult(t, r) ==
    [tasks EXCEPT ![t] = [@ EXCEPT !.st = "posted", !.res = r, !.cancel = TRUE]]

\* tx.send(result): kept in the channel while the receiver lives, dropped
\* otherwise
Send(t, r) ==
    [tasks EXCEPT ![t] = IF Held(t) THEN [@ EXCEPT !.st = "posted", !.res = r, !.cancel = TRUE]
                         ELSE Discarded]

\* (variant: the permit is not given back)
TaskFinish_KeepsPermit(t) ==
    /\ tasks[t].st = "building"
    /\ \E r \in try_build(t) \cup {ChannelClosed} : tasks' = Send(t, r)
    /\ UNCHANGED <<lookup, ret, permits, jobs, rf>>

\* try_build returns (or panics, which drops the sender), the result is sent
\* and the permit is released
TaskFinish(t) ==
    /\ tasks[t].st = "building"
    /\ \E r \in try_build(t) \cup {ChannelClosed} : tasks' = Send(t, r)
    /\ permits' = permits + 1
    /\ UNCHANGED <<lookup, ret, jobs, rf>>

\* Drop for Cancelled, on a clone of the marker of task t that the builder
\* made of args.cancel inside try_build: every drop stores true
DropClone(t) ==
    /\ tasks[t].st = "building"
    /\ ~tasks[t].cancel
    /\ tasks' = [tasks EXCEPT ![t].cancel = TRUE]
    /\ UNCHANGED <<lookup, ret, permits, jobs, rf>>

\* (variant: dropping the handle leaves the flag alone)
DropPending_FlagKept(tt, t) ==
    IF t = 0 THEN tt
    ELSE [tt EXCEPT ![t] = IF @.st = "posted" THEN Finished ELSE @]

\* Drop for PendingPayload (its Cancelled marker and its receiver) of task t
\* (t = 0: there is no handle)
DropPending(tt, t) ==
    IF t = 0 THEN tt
    ELSE [tt EXCEPT ![t] = IF @.st = "posted" THEN Finished
                           ELSE [@ EXCEPT !.cancel = TRUE]]

----------------------------------------------------------------------------
(* The generator *)

\* the chain state provider: it knows the blocks numbered 0..blocks-1, or
\* its lookups fail
Clients == [blocks : 0..MaxBlocks, fails : BOOLEAN]

\* the hash of a block, as seal_slow() computes it
hash_slow(number) == number + 1

\* client.block_by_number_or_tag(BlockNumberOrTag::Latest): the block number
block_by_number_or_tag_latest(client) ==
    IF client.blocks = 0 THEN None ELSE Some(client.blocks - 1)

\* client.find_block_by_hash(hash, BlockSource::Any): the block number
find_block_by_hash(client, hash) ==
    IF \E n \in 0..(client.blocks - 1) : hash_slow(n) = hash
    THEN Some(CHOOSE n \in 0..(client.blocks - 1) : hash_slow(n) = hash)
    ELSE None

\* results of new_payload_job
Ok == [kind |-> "Ok"]
MissingParentBlock(hash) == [kind |-> "MissingParentBlock", hash |-> hash]
ProviderError == [kind |-> "ProviderError"]

NoRet == [fn |-> "none", args |-> << >>, val |-> Ok]
Returned(fn, args, val) == [fn |-> fn, args |-> args, val |-> val]

\* (variant: the latest block is looked up whatever the parent id)
ParentBlock_AlwaysLatest(attributes, client) ==
    IF client.fails THEN ProviderError
    ELSE LET block == block_by_number_or_tag_latest(client)
         IN  IF block = None THEN MissingParentBlock(attributes.parent)
             ELSE SealedBlock(block[1], hash_slow(block[1]))

\* the first statement of new_payload_job: the parent block, or the error
\* returned with `?`
ParentBlock(attributes, client) ==
    IF client.fails THEN ProviderError
    ELSE IF attributes.parent = ZeroHash
    THEN LET block == block_by_number_or_tag_latest(client)
         IN  IF block = None THEN MissingParentBlock(attributes.parent)
             ELSE SealedBlock(block[1], hash_slow(block[1]))
    ELSE LET block == find_block_by_hash(client, attributes.parent)
         IN  IF block = None THEN MissingParentBlock(attributes.parent)
             ELSE SealedBlock(block[1], attributes.parent)

\* the job that new_payload_job constructs: both timers started (the first
\* tick of a tokio Interval is due at once), nothing built
NewJob(config) == [NoJob EXCEPT !.st = "running", !.tick = TRUE, !.config = config]

\* new_payload_job, j being the job it would create
NewPayloadJob(j, attributes, client) ==
    /\ jobs[j].st = "none"
    /\ \A i \in Jobs : i < j => jobs[i].st # "none"
    /\ LET parent_block == ParentBlock(attributes, client)
       IN  IF "kind" \in DOMAIN parent_block
           THEN /\ ret' = Returned("new_payload_job", <<attributes, client>>, parent_block)
                /\ jobs' = jobs
           ELSE /\ ret' = Returned("new_payload_job", <<attributes, client>>, Ok)
                /\ jobs' = [jobs EXCEPT ![j] = NewJob(PayloadConfig(parent_block, attributes))]
    /\ UNCHANGED <<lookup, permits, tasks, rf>>

----------------------------------------------------------------------------
(* The job driver: BasicPayloadJob::poll *)

\* (variant: the driver does not look at the deadline)
DeadlineReached_Never(j) == FALSE

\* this.deadline.as_mut().poll(cx).is_ready()
DeadlineReached(j) == jobs[j].deadline

\* (variant: the cache is cloned into the task, not taken)
Spawn_KeepsCache(job, t) == [job EXCEPT !.pending = t]

\* the body of `if this.pending_block.is_none()`: the cache is moved into the
\* task and the handle of task t is recorded
Spawn(job, t) == [job EXCEPT !.pending = t, !.cached = None]

\* the poll_tick loop has run: no tick is due; when ticks were due, the next
\* one is a full period away only if the poll was not late
Drain(job, late) ==
    IF job.tick THEN [job EXCEPT !.tick = FALSE, !.elapsed = late] ELSE job

\* this.interval.reset(): the next tick is a full period away
Reset(job) == [job EXCEPT !.tick = FALSE, !.elapsed = FALSE]

\* (variant: an aborted attempt does not give its cache back)
Consume_AbortLosesCache(job, res) ==
    CASE res.kind = "Better" ->
            [Reset(job) EXCEPT !.pending = 0,
                        !.cached = Some(res.cache), !.best = Some(res.payload),
                        !.prev = job.best, !.last = "Better"]
      [] res.kind = "Aborted" ->
            [Reset(job) EXCEPT !.pending = 0, !.last = "Aborted"]
      [] res.kind = "Cancelled" ->
            [Reset(job) EXCEPT !.pending = 0, !.st = "panicked"]
      [] OTHER -> [job EXCEPT !.pending = 0, !.last = "failed"]

\* (variant: the interval is left as it is after an outcome)
Consume_NoReset(job, res) ==
    CASE res.kind = "Better" ->
            [job EXCEPT !.pending = 0,
                        !.cached = Some(res.cache), !.best = Some(res.payload),
                        !.prev = job.best, !.last = "Better"]
      [] res.kind = "Aborted" ->
            [job EXCEPT !.pending = 0,
                        !.cached = Some(res.cache), !.last = "Aborted"]
      [] res.kind = "Cancelled" ->
            [job EXCEPT !.pending = 0, !.st = "panicked"]
      [] OTHER -> [job EXCEPT !.pending = 0, !.last = "failed"]

\* (variant: the interval is reset after a failed attempt too)
Consume_FailureResets(job, res) ==
    CASE res.kind = "Better" ->
            [Reset(job) EXCEPT !.pending = 0,
                        !.cached = Some(res.cache), !.best = Some(res.payload),
                        !.prev = job.best, !.last = "Better"]
      [] res.kind = "Aborted" ->
            [Reset(job) EXCEPT !.pending = 0,
                        !.cached = Some(res.cache), !.last = "Aborted"]
      [] res.kind = "Cancelled" ->
            [Reset(job) EXCEPT !.pending = 0, !.st = "panicked"]
      [] OTHER -> [Reset(job) EXCEPT !.pending = 0, !.last = "failed"]

\* (variant: a failed attempt ends the job)
Consume_FailureEnds(job, res) ==
    CASE res.kind = "Better" ->
            [Reset(job) EXCEPT !.pending = 0,
                        !.cached = Some(res.cache), !.best = Some(res.payload),
                        !.prev = job.best, !.last = "Better"]
      [] res.kind = "Aborted" ->
            [Reset(job) EXCEPT !.pending = 0,
                        !.cached = Some(res.cache), !.last = "Aborted"]
      [] res.kind = "Cancelled" ->
            [Reset(job) EXCEPT !.pending = 0, !.st = "panicked"]
      [] OTHER -> [job EXCEPT !.pending = 0, !.last = "failed", !.st = "completed"]

\* the driver's match on the result received from the pending build
Consume(job, res) ==
    CASE res.kind = "Better" ->
            [Reset(job) EXCEPT !.pending = 0,
                        !.cached = Some(res.cache), !.best = Some(res.payload),
                        !.prev = job.best, !.last = "Better"]
      [] res.kind = "Aborted" ->
            [Reset(job) EXCEPT !.pending = 0,
                        !.cached = Some(res.cache), !.last = "Aborted"]
      [] res.kind = "Cancelled" ->
            [Reset(job) EXCEPT !.pending = 0, !.st = "panicked"]
      [] OTHER -> [job EXCEPT !.pending = 0, !.last = "failed"]

\* (variant: the deadline is looked at after the interval ticks)
Poll_TicksFirst(j) ==
    /\ jobs[j].st \in {"running", "completed"}
    /\ \E late \in BOOLEAN :
       LET job == jobs[j]
           spawn == job.tick /\ job.pending = 0
           t == FreeTask
           ticked == Drain(job, late)
           job1 == IF spawn THEN Spawn(ticked, t) ELSE ticked
           tasks1 == IF spawn THEN [tasks EXCEPT ![t] = NewTask(j)] ELSE tasks
       IN  /\ spawn => t \in TaskIds
           /\ IF DeadlineReached(j)
              THEN /\ jobs' = [jobs EXCEPT ![j] = [job1 EXCEPT !.st = "completed"]]
                   /\ tasks' = tasks1
              ELSE /\ jobs' = [jobs EXCEPT ![j] = job1]
                   /\ tasks' = tasks1
    /\ UNCHANGED <<lookup, ret, permits, rf>>

Poll(j) ==
    /\ jobs[j].st \in {"running", "completed"}
    /\ IF DeadlineReached(j)
       THEN /\ jobs' = [jobs EXCEPT ![j].st = "completed"]
            /\ tasks' = tasks
       ELSE \E late \in BOOLEAN :
            LET job == jobs[j]
                spawn == job.tick /\ job.pending = 0
                t == FreeTask
                ticked == Drain(job, late)
                job1 == IF spawn THEN Spawn(ticked, t) ELSE ticked
                tasks1 == IF spawn THEN [tasks EXCEPT ![t] = NewTask(j)] ELSE tasks
                p == job1.pending
            IN  /\ spawn => t \in TaskIds
                /\ IF p # 0 /\ tasks1[p].st = "posted"
                   THEN /\ jobs' = [jobs EXCEPT ![j] = Consume(job1, tasks1[p].res)]
                        /\ tasks' = [tasks1 EXCEPT ![p] = Finished]
                   ELSE /\ jobs' = [jobs EXCEPT ![j] = job1]
                        /\ tasks' = tasks1
    /\ UNCHANGED <<lookup, ret, permits, rf>>

\* (variant: the empty block takes the number of its parent)
build_empty_payload_SameNumber(config) ==
    [BuiltPayload(0, "empty", 0) EXCEPT
        !.header = Header(config.parent_block.hash, config.parent_block.number)]

\* build_empty_payload, when none of its steps fails
build_empty_payload(config) ==
    [BuiltPayload(0, "empty", 0) EXCEPT
        !.header = Header(config.parent_block.hash, config.parent_block.number + 1)]

\* Result<Arc<BuiltPayload>, PayloadBuilderError> of best_payload()
OkPayload(payload) == [kind |-> "Ok", payload |-> payload]
EmptyPayloadError == [kind |-> "Err"]

\* (variant: the empty payload that was built is kept as the best payload)
BestPayload_StoresEmpty(j) ==
    /\ jobs[j].st = "running"
    /\ IF jobs[j].best # None
       THEN /\ ret' = Returned("best_payload", <<j>>, OkPayload(jobs[j].best[1]))
            /\ jobs' = jobs
       ELSE \/ /\ ret' = Returned("best_payload", <<j>>,
                                  OkPayload(build_empty_payload(jobs[j].config)))
               /\ jobs' = [jobs EXCEPT ![j].best = Some(build_empty_payload(jobs[j].config))]
            \/ /\ ret' = Returned("best_payload", <<j>>, EmptyPayloadError)
               /\ jobs' = jobs
    /\ UNCHANGED <<lookup, permits, tasks, rf>>

\* BasicPayloadJob::best_payload: the stored best payload, or else what
\* build_empty_payload returns
BestPayload(j) ==
    /\ jobs[j].st = "running"
    /\ IF jobs[j].best # None
       THEN ret' = Returned("best_payload", <<j>>, OkPayload(jobs[j].best[1]))
       ELSE \/ ret' = Returned("best_payload", <<j>>,
                               OkPayload(build_empty_payload(jobs[j].config)))
            \/ ret' = Returned("best_payload", <<j>>, EmptyPayloadError)
    /\ UNCHANGED <<lookup, permits, jobs, tasks, rf>>

\* the owner of the job future drops it once it is over
DropJob(j) ==
    /\ jobs[j].st \in {"completed", "panicked"}
    /\ jobs' = [jobs EXCEPT ![j] = [NoJob EXCEPT !.st = "dropped"]]
    /\ tasks' = DropPending(tasks, jobs[j].pending)
    /\ UNCHANGED <<lookup, ret, permits, rf>>

----------------------------------------------------------------------------
(* Resolve *)

\* what PayloadBuilder::on_missing_payload may return
MissingPayloads == {None} \cup {Some(BuiltPayload(0, "missing", 0))}

\* (variant: resolve() never asks for the job to be kept)
KeepAlive_Never(best_payload, m) == "No"

\* the KeepPayloadJobAlive that resolve() returns
KeepAlive(best_payload, m) == IF best_payload = None /\ m # None THEN "Yes" ELSE "No"

\* the caller of resolve() keeps the job only when told to
AfterResolve(keep) == IF keep = "Yes" THEN "running" ELSE "resolved"

\* BasicPayloadJob::resolve, m being what on_missing_payload returns when it
\* is called
Resolve(j) ==
    /\ jobs[j].st = "running"
    /\ rf[j].st # "live"
    /\ \E m \in MissingPayloads :
        LET best_payload == jobs[j].best
            keep == KeepAlive(best_payload, m)
            fut == [NoResolve EXCEPT !.st = "live", !.maybe_better = jobs[j].pending,
                                     !.keep = keep]
            taken == [jobs[j] EXCEPT !.best = None, !.pending = 0,
                                     !.st = AfterResolve(keep)]
        IN  IF best_payload = None
            THEN /\ rf' = [rf EXCEPT ![j] =
                            IF m # None
                            THEN [fut EXCEPT !.best = m, !.missing = "some"]
                            ELSE [fut EXCEPT !.empty = "running", !.missing = "none",
                                             !.config = jobs[j].config]]
                 /\ jobs' = [jobs EXCEPT ![j] = [taken EXCEPT !.cached = None]]
            ELSE /\ rf' = [rf EXCEPT ![j] = [fut EXCEPT !.best = best_payload]]
                 /\ jobs' = [jobs EXCEPT ![j] = taken]
    /\ UNCHANGED <<lookup, ret, permits, tasks>>

\* the blocking task spawned by resolve(): build_empty_payload and tx.send

EmptyTaskFinish(j) ==
    /\ rf[j].empty = "running"
    /\ \E r \in {"ok", "err", "closed"} : rf' = [rf EXCEPT ![j].empty = r]
    /\ UNCHANGED <<lookup, ret, permits, jobs, tasks>>

\* Drop for ResolveBestPayload: its PendingPayload and its empty-payload
\* receiver go; a best payload it still holds is left in the record of a
\* completed future, where nothing reads it but the properties below
DropFuture(fut) == [fut EXCEPT !.maybe_better = 0, !.empty = "none", !.config = NoConfig]

\* what a poll of the future makes of it, res being what its poll of
\* maybe_better received (NoRes: nothing) and this the future without a
\* handle that has produced its result
Ready(fut, out) == [DropFuture(fut) EXCEPT !.st = "done", !.out = out]

\* (variant: the stored best payload is returned before the in-flight build
\* is looked at)
ResolveOutput_BestFirst(this, res) ==
    IF this.best # None
    THEN Ready([this EXCEPT !.best = None], Better(this.best[1], EmptyCache))
    ELSE IF res.kind = "Better"
    THEN Ready(this, Better(res.payload, EmptyCache))
    ELSE CASE this.empty = "none" -> [DropFuture(this) EXCEPT !.st = "panicked"]
           [] this.empty = "running" -> this
           [] this.empty = "ok" -> Ready(this, Better(build_empty_payload(this.config), EmptyCache))
           [] this.empty = "err" -> Ready(this, BuilderError)
           [] OTHER -> Ready(this, ChannelClosed)

\* (variant: the empty payload is returned as soon as it is there)
ResolveOutput_EmptyFirst(this, res) ==
    IF this.empty = "ok"
    THEN Ready(this, Better(build_empty_payload(this.config), EmptyCache))
    ELSE IF res.kind = "Better"
    THEN Ready(this, Better(res.payload, EmptyCache))
    ELSE IF this.best # None
    THEN Ready([this EXCEPT !.best = None], Better(this.best[1], EmptyCache))
    ELSE CASE this.empty = "none" -> [DropFuture(this) EXCEPT !.st = "panicked"]
           [] this.empty = "running" -> this
           [] this.empty = "err" -> Ready(this, BuilderError)
           [] OTHER -> Ready(this, ChannelClosed)

\* (variant: a failed empty-payload task leaves the future pending)
ResolveOutput_WaitsOnError(this, res) ==
    IF res.kind = "Better"
    THEN Ready(this, Better(res.payload, EmptyCache))
    ELSE IF this.best # None
    THEN Ready([this EXCEPT !.best = None], Better(this.best[1], EmptyCache))
    ELSE CASE this.empty = "none" -> [DropFuture(this) EXCEPT !.st = "panicked"]
           [] this.empty = "ok" -> Ready(this, Better(build_empty_payload(this.config), EmptyCache))
           [] OTHER -> this

\* (variant: a receiver that is still pending is not put back)
ResolveOutput_DropsReceiver(this, res) ==
    IF res.kind = "Better"
    THEN Ready(this, Better(res.payload, EmptyCache))
    ELSE IF this.best # None
    THEN Ready([this EXCEPT !.best = None], Better(this.best[1], EmptyCache))
    ELSE CASE this.empty = "none" -> [DropFuture(this) EXCEPT !.st = "panicked"]
           [] this.empty = "running" -> [this EXCEPT !.empty = "none"]
           [] this.empty = "ok" -> Ready(this, Better(build_empty_payload(this.config), EmptyCache))
           [] this.empty = "err" -> Ready(this, BuilderError)
           [] OTHER -> Ready(this, ChannelClosed)

\* (variant: the future waits for the in-flight build before anything else)
ResolveOutput_WaitsForBuild(this, res) ==
    IF res.kind = "Better"
    THEN Ready(this, Better(res.payload, EmptyCache))
    ELSE IF this.maybe_better # 0
    THEN this
    ELSE IF this.best # None
    THEN Ready([this EXCEPT !.best = None], Better(this.best[1], EmptyCache))
    ELSE CASE this.empty = "none" -> [DropFuture(this) EXCEPT !.st = "panicked"]
           [] this.empty = "running" -> this
           [] this.empty = "ok" -> Ready(this, Better(build_empty_payload(this.config), EmptyCache))
           [] this.empty = "err" -> Ready(this, BuilderError)
           [] OTHER -> Ready(this, ChannelClosed)

ResolveOutput(this, res) ==
    IF res.kind = "Better"
    THEN Ready(this, Better(res.payload, EmptyCache))
    ELSE IF this.best # None
    THEN Ready([this EXCEPT !.best = None], Better(this.best[1], EmptyCache))
    ELSE CASE this.empty = "none" -> [DropFuture(this) EXCEPT !.st = "panicked"]
           [] this.empty = "running" -> this
           [] this.empty = "ok" -> Ready(this, Better(build_empty_payload(this.config), EmptyCache))
           [] this.empty = "err" -> Ready(this, BuilderError)
           [] OTHER -> Ready(this, ChannelClosed)

\* ResolveBestPayload::poll; the future that completes is dropped by the
\* caller that awaited it
PollResolve(j) ==
    /\ rf[j].st = "live"
    /\ LET this == rf[j]
           mb == this.maybe_better
           ready == mb # 0 /\ tasks[mb].st = "posted"
           res == IF ready THEN tasks[mb].res ELSE NoRes
           this1 == IF ready THEN [this EXCEPT !.maybe_better = 0] ELSE this
           tasks1 == IF ready THEN [tasks EXCEPT ![mb] = Finished] ELSE tasks
           this2 == ResolveOutput(this1, res)
       IN  /\ rf' = [rf EXCEPT ![j] = this2]
           /\ tasks' = IF this2.st = "live" THEN tasks1
                       ELSE DropPending(tasks1, this1.maybe_better)
    /\ UNCHANGED <<lookup, ret, permits, jobs>>

\* the caller drops a resolve future it no longer awaits
DropResolve(j) ==
    /\ rf[j].st = "live"
    /\ rf' = [rf EXCEPT ![j] = NoResolve]
    /\ tasks' = DropPending(tasks, rf[j].maybe_better)
    /\ UNCHANGED <<lookup, ret, permits, jobs>>

----------------------------------------------------------------------------
(* The transaction lookup store (tx_lookup_store.rs) *)

\* number of index files in the directory of the store
MaxFiles == 2
\* number of lines of an index file
MaxLines == 2
\* transaction hashes range over 1..MaxHash
MaxHash == 2

Paths == 1..MaxFiles
TxHashes == 1..MaxHash

\* the hashes of the lines of an index file, in ascending order
SortedHashes ==
    {hs \in UNION {[1..n -> TxHashes] : n \in 0..MaxLines} :
        \A i \in 1..Len(hs) : \A k \in 1..Len(hs) : i < k => hs[i] <= hs[k]}

\* the lines of index file path: a line is a (TxHash, TxNumber), and a
\* transaction number stands in one line of one file
IndexFile(path, hs) ==
    [i \in 1..Len(hs) |-> <<hs[i], (path - 1) * MaxLines + i>>]

\* what the directory of the store may hold
Directories ==
    {[path \in Paths |-> IndexFile(path, h[path])] : h \in [Paths -> SortedHashes]}

\* the orders in which fs::read_dir may list the directory
ReadDirs == {o \in [Paths -> Paths] : \A p \in Paths : \A q \in Paths : o[p] = o[q] => p = q}

\* TxLookupCursor::advance: Some(cursor) on the next line, None at the end
advance(self) ==
    IF self.lines = <<>> THEN None
    ELSE Some([self EXCEPT !.current = Some(Head(self.lines)), !.lines = Tail(self.lines)])

\* TxLookupCursor::new
NewCursor(path, file) == advance([path |-> path, lines |-> file, current |-> None])

\* TxLookupCursor::tx_hash
tx_hash(self) == IF self.current = None THEN None ELSE Some(self.current[1][1])

\* Ord for TxLookupCursor: Ordering::Less or Equal; None sorts before Some
cursor_le(a, b) ==
    \/ tx_hash(a) = None
    \/ tx_hash(a) # None /\ tx_hash(b) # None /\ tx_hash(a)[1] <= tx_hash(b)[1]

\* BTreeSet::insert: a value that compares equal to one in the set is not
\* inserted
insert(cursors, cursor) ==
    IF \E c \in cursors : tx_hash(c) = tx_hash(cursor) THEN cursors
    ELSE cursors \cup {cursor}

\* the first element of the BTreeSet, which BTreeSet::pop_first removes
first(cursors) == CHOOSE c \in cursors : \A d \in cursors : cursor_le(c, d)

\* TxLookupIter
NewIter == [cursors |-> {}, drained |-> {}]

\* the loop of read_iter over the first n entries that read_dir lists
RECURSIVE add_cursors(_, _, _)
add_cursors(dir, order, n) ==
    IF n = 0 THEN NewIter
    ELSE LET iter == add_cursors(dir, order, n - 1)
             cursor == NewCursor(order[n], dir[order[n]])
         IN  IF cursor = None THEN iter
             ELSE [iter EXCEPT !.cursors = insert(@, cursor[1])]

\* no iterator yet
NoLookup == [st |-> "none", dir |-> [path \in Paths |-> <<>>], iter |-> NewIter, yielded |-> <<>>]

\* TxLookupStore::read_iter
ReadIter ==
    /\ lookup.st = "none"
    /\ \E dir \in Directories : \E order \in ReadDirs :
         lookup' = [st |-> "iter", dir |-> dir,
                    iter |-> add_cursors(dir, order, MaxFiles), yielded |-> <<>>]
    /\ UNCHANGED <<permits, jobs, tasks, rf, ret>>

\* TxLookupIter::next: None when no cursor is left, the item of the first
\* cursor otherwise
IterNext ==
    /\ lookup.st = "iter"
    /\ IF lookup.iter.cursors = {}
       THEN lookup' = [lookup EXCEPT !.st = "done"]
       ELSE LET next_cursor == first(lookup.iter.cursors)
                popped == lookup.iter.cursors \ {next_cursor}
                item == next_cursor.current[1]
                advanced == advance([next_cursor EXCEPT !.current = None])
            IN  lookup' =
                  [lookup EXCEPT
                     !.yielded = Append(@, item),
                     !.iter = IF advanced # None
                              THEN [cursors |-> insert(popped, advanced[1]),
                                    drained |-> lookup.iter.drained]
                              ELSE [cursors |-> popped,
                                    drained |-> lookup.iter.drained \cup {next_cursor.path}]]
    /\ UNCHANGED <<permits, jobs, tasks, rf, ret>>

----------------------------------------------------------------------------
(* The timers *)

\* tokio::time::Sleep: the deadline passes
DeadlineFires(j) ==
    /\ jobs[j].st = "running"
    /\ ~jobs[j].deadline
    /\ jobs' = [jobs EXCEPT ![j].deadline = TRUE]
    /\ UNCHANGED <<lookup, ret, permits, tasks, rf>>

\* tokio::time::Interval: time passes; a full period becomes less than a
\* period, and then the tick is due
IntervalElapses(j) ==
    /\ jobs[j].st = "running"
    /\ ~jobs[j].tick
    /\ jobs' = [jobs EXCEPT ![j] = IF @.elapsed
                                  THEN [@ EXCEPT !.tick = TRUE, !.elapsed = FALSE]
                                  ELSE [@ EXCEPT !.elapsed = TRUE]]
    /\ UNCHANGED <<lookup, ret, permits, tasks, rf>>

----------------------------------------------------------------------------

Init ==
    /\ permits = MaxPayloadTasks
    /\ jobs = [j \in Jobs |-> NoJob]
    /\ tasks = [t \in TaskIds |-> IdleTask]
    /\ rf = [j \in Jobs |-> NoResolve]
    /\ ret = NoRet
    /\ lookup = NoLookup

\* a job for the head of a chain of one block
HeadAttributes == [parent |-> ZeroHash]
SyncedClient == [blocks |-> 1, fails |-> FALSE]

\* one job for the head of the chain
Next ==
    \/ NewPayloadJob(1, HeadAttributes, SyncedClient)
    \/ \E j \in Jobs : DeadlineFires(j)
    \/ \E j \in Jobs : IntervalElapses(j)
    \/ \E j \in Jobs : Poll(j)
    \/ \E j \in Jobs : DropJob(j)
    \/ \E j \in Jobs : Resolve(j)
    \/ \E j \in Jobs : PollResolve(j)
    \/ \E j \in Jobs : EmptyTaskFinish(j)
    \/ \E j \in Jobs : DropResolve(j)
    \/ \E t \in TaskIds : TaskAcquire(t)
    \/ \E t \in TaskIds : TaskFinish(t)

Spec == Init /\ [][Next]_vars

\* every try_build call ends, and the semaphore, which serves its waiters
\* in turn, lets no waiting task starve
FairTasks ==
    /\ Spec
    /\ \A t \in TaskIds : WF_vars(TaskFinish(t))
    /\ \A t \in TaskIds : SF_vars(TaskAcquire(t))

\* the caller keeps polling its resolve future and the empty-payload task
\* runs to its end; nothing is assumed of the build tasks
FairResolve ==
    /\ Spec
    /\ \A j \in Jobs : WF_vars(PollResolve(j))
    /\ \A j \in Jobs : WF_vars(EmptyTaskFinish(j))

\* the jobs of one generator, sharing its semaphore, each running until its
\* deadline
NextJobs ==
    \/ \E j \in Jobs : NewPayloadJob(j, HeadAttributes, SyncedClient)
    \/ \E j \in Jobs : DeadlineFires(j)
    \/ \E j \in Jobs : IntervalElapses(j)
    \/ \E j \in Jobs : Poll(j)
    \/ \E j \in Jobs : DropJob(j)
    \/ \E t \in TaskIds : TaskAcquire(t)
    \/ \E t \in TaskIds : TaskFinish(t)

SpecJobs == Init /\ [][NextJobs]_vars

\* one job for the head of the chain, with a builder that clones the
\* Cancelled marker it is given
NextClones ==
    \/ NewPayloadJob(1, HeadAttributes, SyncedClient)
    \/ \E j \in Jobs : DeadlineFires(j)
    \/ \E j \in Jobs : IntervalElapses(j)
    \/ \E j \in Jobs : Poll(j)
    \/ \E j \in Jobs : DropJob(j)
    \/ \E j \in Jobs : Resolve(j)
    \/ \E j \in Jobs : PollResolve(j)
    \/ \E j \in Jobs : EmptyTaskFinish(j)
    \/ \E j \in Jobs : DropResolve(j)
    \/ \E t \in TaskIds : TaskAcquire(t)
    \/ \E t \in TaskIds : DropClone(t)
    \/ \E t \in TaskIds : TaskFinish(t)

SpecClones == Init /\ [][NextClones]_vars

\* the generator called with every attributes value on every client, and
\* one job that is resolved before any of its builds has started
NextGen ==
    \/ \E a \in Attributes, c \in Clients : NewPayloadJob(1, a, c)
    \/ \E j \in Jobs : DeadlineFires(j)
    \/ \E j \in Jobs : Poll(j)
    \/ \E j \in Jobs : DropJob(j)
    \/ \E j \in Jobs : Resolve(j)
    \/ \E j \in Jobs : PollResolve(j)
    \/ \E j \in Jobs : EmptyTaskFinish(j)
    \/ \E j \in Jobs : DropResolve(j)

SpecGen == Init /\ [][NextGen]_vars

\* one job that runs until its deadline while best_payload() is called on it
NextApi ==
    \/ NewPayloadJob(1, HeadAttributes, SyncedClient)
    \/ \E j \in Jobs : DeadlineFires(j)
    \/ \E j \in Jobs : IntervalElapses(j)
    \/ \E j \in Jobs : Poll(j)
    \/ \E j \in Jobs : BestPayload(j)
    \/ \E j \in Jobs : DropJob(j)
    \/ \E t \in TaskIds : TaskAcquire(t)
    \/ \E t \in TaskIds : TaskFinish(t)

SpecApi == Init /\ [][NextApi]_vars

\* the pure functions, called on their own
Timestamps == 0..MaxTime
Clocks == (0 - SubSec)..from_secs(MaxTime)
Deadlines == 0..MaxDeadline
BestPayloads == {None} \cup {Some(BuiltPayload(f, "build", 1)) : f \in Fees}

Call_is_better_payload ==
    /\ \E best_payload \in BestPayloads, new_fees \in Fees :
          ret' = Returned("is_better_payload", <<best_payload, new_fees>>,
                          is_better_payload(best_payload, new_fees))
    /\ UNCHANGED <<lookup, permits, jobs, tasks, rf>>

Call_duration_until ==
    /\ \E t \in Timestamps, now \in Clocks :
          ret' = Returned("duration_until", <<t, now>>, duration_until(t, now))
    /\ UNCHANGED <<lookup, permits, jobs, tasks, rf>>

Call_max_job_duration ==
    /\ \E deadline \in Deadlines, t \in Timestamps, now \in Clocks :
          ret' = Returned("max_job_duration", <<deadline, t, now>>,
                          max_job_duration(deadline, t, now))
    /\ UNCHANGED <<lookup, permits, jobs, tasks, rf>>

NextPure ==
    \/ Call_is_better_payload
    \/ Call_duration_until
    \/ Call_max_job_duration

SpecPure == Init /\ [][NextPure]_vars

\* the lookup store alone: one directory, read once and iterated to the end
NextMerge ==
    \/ ReadIter
    \/ IterNext

SpecMerge == Init /\ [][NextMerge]_vars

----------------------------------------------------------------------------
(* Properties *)

\* the build tasks spawned by job j that have not returned yet
Unfinished(j) ==
    {t \in TaskIds : tasks[t].job = j /\ tasks[t].st \in {"waiting", "building"}}

\* the tasks inside try_build: permit acquired, result not yet sent
Building == {t \in TaskIds : tasks[t].st = "building"}

\* this step spawns no build task for job j
NoSpawn(j) ==
    \A t \in TaskIds : tasks[t].st = "idle" /\ tasks'[t].st # "idle" => tasks'[t].job # j

\* this step is a call of resolve() on job j
ResolveStep(j) == rf[j].st # "live" /\ rf'[j].st = "live"

\* C1: for each job, at most one build task spawned by that job is
\* unfinished at any time, whatever the interleaving of polls, ticks,
\* completions and resolve() calls (a job kept alive by resolve() included).
C1_AtMostOneUnfinished == \A j \in Jobs : Cardinality(Unfinished(j)) <= 1

\* C2: whenever the stored best payload of a job is replaced by another
\* payload, the new one has strictly higher fees; the stored best is removed
\* only by a resolve() that ends the job or by the job being dropped.
C2_MonotoneBest ==
    [][\A j \in Jobs :
          jobs[j].best # None /\ jobs'[j].best # jobs[j].best =>
             IF jobs'[j].best # None
             THEN jobs'[j].best[1].fees > jobs[j].best[1].fees
             ELSE jobs'[j].st \in {"resolved", "dropped"}]_vars

\* a stored best payload has replaced an earlier one
C2_Witness ==
    \E j \in Jobs : /\ jobs[j].best # None
                    /\ jobs[j].prev # None
                    /\ jobs[j].best[1].fees > jobs[j].prev[1].fees

\* C3: the number of build tasks inside try_build never exceeds
\* max_payload_tasks, whatever the number of jobs sharing the semaphore; the
\* permits handed out and the permits left add up to max_payload_tasks.
C3_PermitBound ==
    /\ Cardinality(Building) <= MaxPayloadTasks
    /\ permits = MaxPayloadTasks - Cardinality(Building)

\* all permits are taken by the build of one job while the build of another
\* job waits
C3_Witness ==
    \E t1, t2 \in TaskIds :
        /\ tasks[t1].st = "building"
        /\ tasks[t2].st = "waiting"
        /\ tasks[t1].job # tasks[t2].job
        /\ permits = 0

\* C4: while a job holds a pending build it holds no cache, and the cache a
\* job holds is never the one an unfinished build of that job was given.
C4_CacheOnLoan ==
    \A j \in Jobs :
        /\ jobs[j].pending # 0 => jobs[j].cached = None
        /\ jobs[j].cached # None =>
              \A t \in Unfinished(j) : tasks[t].cache # jobs[j].cached[1]

\* a cache filled by an earlier attempt is on loan to the pending build
C4_Witness ==
    \E j \in Jobs : /\ jobs[j].pending # 0
                    /\ tasks[jobs[j].pending].st \in {"waiting", "building"}
                    /\ tasks[jobs[j].pending].cache # EmptyCache
                    /\ jobs[j].cached = None

\* C5: a poll that consumes a Better or an Aborted outcome leaves the job
\* holding the cache of that outcome; a poll of a job without a cache (as
\* after a failed attempt) whose tick is due spawns the next attempt, which
\* starts from the empty cache.
C5_CacheConservation ==
    [][\A j \in Jobs :
          LET p == jobs[j].pending IN
          Poll(j) /\ ~DeadlineReached(j) =>
             /\ (p # 0 /\ tasks[p].st = "posted"
                       /\ tasks[p].res.kind \in {"Better", "Aborted"})
                   => jobs'[j].cached = Some(tasks[p].res.cache)
             /\ (p = 0 /\ jobs[j].tick /\ jobs[j].cached = None)
                   => /\ jobs'[j].pending # 0
                      /\ tasks'[jobs'[j].pending].st = "waiting"
                      /\ tasks'[jobs'[j].pending].cache = EmptyCache]_vars

\* after a Better outcome and then a failed attempt, the job has spawned
\* the next attempt from the empty cache
C5_Witness ==
    \E j \in Jobs : /\ jobs[j].last = "failed"
                    /\ jobs[j].best # None
                    /\ jobs[j].pending # 0
                    /\ tasks[jobs[j].pending].cache = EmptyCache

\* C6: once the deadline timer of a job has fired, a poll of the driver only
\* completes the job: it consumes no outcome, spawns no build, resets no
\* tick, and leaves best_payload, cached_reads and pending_block as they were.
C6_DeadlineFinality ==
    [][\A j \in Jobs :
          jobs[j].deadline /\ Poll(j) =>
             /\ jobs'[j] = [jobs[j] EXCEPT !.st = "completed"]
             /\ tasks' = tasks]_vars

\* a job completed by its deadline while the outcome of its pending build
\* was there to be received
C6_Witness ==
    \E j \in Jobs : /\ jobs[j].st = "completed"
                    /\ jobs[j].pending # 0
                    /\ tasks[jobs[j].pending].st = "posted"
                    /\ tasks[jobs[j].pending].res.kind = "Better"

C8_InFlightBetterWins ==
    [][\A j \in Jobs :
          LET mb == rf[j].maybe_better IN
          (/\ PollResolve(j)
           /\ rf[j].best # None
           /\ mb # 0
           /\ tasks[mb].st = "posted"
           /\ tasks[mb].res.kind = "Better")
             => /\ rf'[j].st = "done"
                /\ rf'[j].out.kind = "Better"
                /\ rf'[j].out.payload = tasks[mb].res.payload
                /\ rf'[j].out.payload # rf[j].best[1]]_vars

\* a resolve future that held a built best payload has returned the payload
\* of its in-flight build, with higher fees
C8_Witness ==
    \E j \in Jobs : /\ rf[j].st = "done"
                    /\ rf[j].best # None
                    /\ rf[j].best[1].by = "build"
                    /\ rf[j].out.payload.by = "build"
                    /\ rf[j].out.payload.fees > rf[j].best[1].fees

\* C9: a resolve future holding a stored best payload has no empty-payload
\* task, and a poll of the future returns the empty payload only when the
\* future holds no best payload and its in-flight build has not sent a Better
\* outcome.
C9_EmptyIsLastResort ==
    [][\A j \in Jobs :
          LET mb == rf[j].maybe_better IN
          /\ rf[j].st = "live" /\ rf[j].best # None => rf[j].empty = "none"
          /\ (/\ rf[j].st = "live"
              /\ rf'[j].st = "done"
              /\ rf'[j].out.payload.by = "empty")
                => /\ rf[j].best = None
                   /\ rf[j].empty = "ok"
                   /\ ~(mb # 0 /\ tasks[mb].st = "posted"
                               /\ tasks[mb].res.kind = "Better")]_vars

\* a resolve future has returned the empty payload
C9_Witness ==
    \E j \in Jobs : /\ rf[j].st = "done"
                    /\ rf[j].out.kind = "Better"
                    /\ rf[j].out.payload.by = "empty"
                    /\ rf[j].keep = "No"

\* C10: resolve() returns keep-alive = Yes exactly when the job has no best
\* payload and on_missing_payload returns Some(payload); the future then holds
\* that payload and no empty-payload task.  In every other case it returns
\* No: with the job's best payload and no empty-payload task when there is
\* one, with an empty-payload task when on_missing_payload returns None.
C10_KeepAlive ==
    [][\A j \in Jobs :
          ResolveStep(j) =>
             LET fut == rf'[j] IN
             /\ fut.keep \in {"Yes", "No"}
             /\ fut.keep = "Yes" <=> (jobs[j].best = None /\ fut.missing = "some")
             /\ fut.missing = "uncalled" <=> jobs[j].best # None
             /\ fut.keep = "Yes" =>
                   /\ fut.best \in MissingPayloads \ {None}
                   /\ fut.empty = "none"
             /\ fut.missing = "uncalled" =>
                   fut.best = jobs[j].best /\ fut.empty = "none"
             /\ fut.missing = "none" =>
                   fut.best = None /\ fut.empty = "running"]_vars

\* resolve() has returned keep-alive = Yes with the payload of
\* on_missing_payload, and the job is still running
C10_Witness ==
    \E j \in Jobs : /\ rf[j].st = "live"
                    /\ rf[j].keep = "Yes"
                    /\ rf[j].best \in MissingPayloads \ {None}
                    /\ rf[j].empty = "none"
                    /\ jobs[j].st = "running"

\* C11: when the resolve future holds no best payload, its in-flight build
\* (if any) has not sent a Better outcome, and the empty-payload task has
\* failed, a poll of the future completes it with the error of the task: the
\* builder's error when the task sent one, the channel-closed error when the
\* sender was dropped.
C11_ResolveErrorPropagates ==
    [][\A j \in Jobs :
          LET mb == rf[j].maybe_better IN
          (/\ PollResolve(j)
           /\ rf[j].best = None
           /\ rf[j].empty \in {"err", "closed"}
           /\ ~(mb # 0 /\ tasks[mb].st = "posted" /\ tasks[mb].res.kind = "Better"))
             => /\ rf'[j].st = "done"
                /\ rf'[j].out = IF rf[j].empty = "err" THEN BuilderError
                                ELSE ChannelClosed]_vars

\* a resolve future has completed with the channel-closed error of its
\* empty-payload task
C11_Witness ==
    \E j \in Jobs : /\ rf[j].st = "done"
                    /\ rf[j].missing = "none"
                    /\ rf[j].out = ChannelClosed

\* C12: a poll that receives a failed attempt (an error of the builder, or
\* the channel-closed error of a dropped sender) leaves the job running with
\* best_payload unchanged and pending_block cleared; the poll spawns nothing.
C12_FailureIsSwallowed ==
    [][\A j \in Jobs :
          LET p == jobs[j].pending IN
          (/\ Poll(j)
           /\ ~DeadlineReached(j)
           /\ p # 0
           /\ tasks[p].st = "posted"
           /\ tasks[p].res.kind \in {"Err", "Closed"})
             => /\ jobs'[j].st = "running"
                /\ jobs'[j].best = jobs[j].best
                /\ jobs'[j].pending = 0
                /\ NoSpawn(j)]_vars

\* a running job with a best payload whose last attempt failed and which
\* has no pending build
C12_Witness ==
    \E j \in Jobs : /\ jobs[j].st = "running"
                    /\ jobs[j].last = "failed"
                    /\ jobs[j].best # None
                    /\ jobs[j].pending = 0

\* C13: a poll that finds the deadline fired completes the job and leaves
\* best_payload as it was; when the completed job is dropped, the cancel flag
\* of its pending build is true; a build that has not finished and whose
\* flag is false has its handle held by a job or a resolve future.
C13_DeadlineCancels ==
    [][\A j \in Jobs :
          LET p == jobs[j].pending IN
          /\ Poll(j) /\ DeadlineReached(j)
                => jobs'[j].st = "completed" /\ jobs'[j].best = jobs[j].best
          /\ DropJob(j) /\ p # 0
                => jobs'[j].pending = 0 /\ tasks'[p].cancel
          /\ \A t \in Unfinished(j) : ~tasks[t].cancel => Held(t)]_vars

\* the job was dropped after its deadline while its build was inside
\* try_build, and the build sees the flag set
C13_Witness ==
    \E t \in TaskIds : /\ tasks[t].st = "building"
                       /\ tasks[t].cancel
                       /\ tasks[t].best = None
                       /\ jobs[tasks[t].job].st = "dropped"

\* C14: new_payload_job looks for the latest block when the parent id is zero
\* and for the block with that hash otherwise; when the client has no such
\* block it returns MissingParentBlock(attributes.parent) and changes nothing:
\* no job, no timer, no build task; when it has, the job is created with that
\* block as its parent.
C14_MissingParent ==
    [][\A a \in Attributes, c \in Clients :
          (~c.fails /\ \E j \in Jobs : NewPayloadJob(j, a, c)) =>
             LET known == {n \in 0..(c.blocks - 1) :
                              a.parent = ZeroHash \/ hash_slow(n) = a.parent}
             IN  IF known = {}
                 THEN /\ ret'.val = MissingParentBlock(a.parent)
                      /\ jobs' = jobs /\ tasks' = tasks /\ rf' = rf
                 ELSE /\ ret'.val = Ok
                      /\ \E j \in Jobs :
                            /\ jobs[j].st = "none"
                            /\ jobs'[j].st = "running"
                            /\ jobs'[j].config.parent_block.number \in known
                            /\ \A n \in known :
                                  n <= jobs'[j].config.parent_block.number]_vars

\* new_payload_job has returned MissingParentBlock for a hash that a client
\* with blocks does not know, and there is no job
C14_Witness ==
    /\ ret.fn = "new_payload_job"
    /\ ret.args[1].parent # ZeroHash
    /\ ret.args[2].blocks > 0
    /\ ret.val = MissingParentBlock(ret.args[1].parent)
    /\ \A j \in Jobs : jobs[j] = NoJob

\* C15: is_better_payload(current_best, new_fees) is true exactly when
\* current_best is None or new_fees is greater than the fees of current_best:
\* true for None whatever the fees, false for a tie.
C15_IsBetter ==
    ret.fn = "is_better_payload" =>
       LET current_best == ret.args[1]
           new_fees == ret.args[2]
       IN  /\ ret.val \in BOOLEAN
           /\ ret.val <=> (current_best = None \/ new_fees > current_best[1].fees)
           /\ current_best = None => ret.val
           /\ (current_best # None /\ new_fees = current_best[1].fees) => ~ret.val

\* is_better_payload has returned false for a tie
C15_Witness ==
    /\ ret.fn = "is_better_payload"
    /\ ret.args[1] # None
    /\ ret.args[2] = ret.args[1][1].fees
    /\ ret.val = FALSE

\* C16: max_job_duration(t) is the configured deadline plus the smaller of
\* duration_until(t) and three times the configured deadline; it is at most
\* four times the configured deadline, and it is the configured deadline when
\* t is not after the wall clock.
C16_DeadlineClamp ==
    ret.fn = "max_job_duration" =>
       LET deadline_config == ret.args[1]
           t == ret.args[2] * SubSec
           wall_now == IF ret.args[3] < 0 THEN 0 ELSE ret.args[3]
           until == IF t <= wall_now THEN 0 ELSE t - wall_now
       IN  /\ ret.val = deadline_config +
                 (IF until <= 3 * deadline_config THEN until ELSE 3 * deadline_config)
           /\ ret.val <= 4 * deadline_config
           /\ t <= wall_now => ret.val = deadline_config

\* max_job_duration has capped a slot far in the future at four times a
\* deadline that is not zero
C16_Witness ==
    /\ ret.fn = "max_job_duration"
    /\ ret.args[1] > 0
    /\ ret.args[2] * SubSec - ret.args[3] > 3 * ret.args[1]
    /\ ret.val = 4 * ret.args[1]

\* C17: duration_until(t) is zero when t is not after the wall clock and is
\* t minus the wall clock otherwise; it is never negative.
C17_DurationUntil ==
    ret.fn = "duration_until" =>
       LET t == ret.args[1] * SubSec
           wall_now == IF ret.args[2] < 0 THEN 0 ELSE ret.args[2]
       IN  /\ ret.val >= 0
           /\ t <= wall_now => ret.val = 0
           /\ t > wall_now => ret.val = t - wall_now

\* duration_until has returned zero for a timestamp before the wall clock
C17_Witness ==
    /\ ret.fn = "duration_until"
    /\ ret.args[1] * SubSec < ret.args[2]
    /\ ret.val = 0

C18_BestPayloadReads ==
    [][\A j \in Jobs :
          (BestPayload(j) \/ (ret' # ret /\ ret'.fn = "best_payload" /\ ret'.args = <<j>>))
             => /\ jobs' = jobs
                /\ tasks' = tasks
                /\ jobs[j].best # None => ret'.val = OkPayload(jobs[j].best[1])
                /\ jobs[j].best = None =>
                      \/ ret'.val = OkPayload(build_empty_payload(jobs[j].config))
                      \/ ret'.val = EmptyPayloadError]_vars

\* best_payload() has returned the empty payload to a job that has a pending
\* build, and the job still has no best payload
C18_Witness ==
    \E j \in Jobs : /\ ret.fn = "best_payload"
                    /\ ret.args = <<j>>
                    /\ ret.val.kind = "Ok"
                    /\ ret.val.payload.by = "empty"
                    /\ jobs[j].st = "running"
                    /\ jobs[j].best = None
                    /\ jobs[j].pending # 0

\* C20: the cancel flag of a build that has not finished is false for as
\* long as its handle is held by the job or by a resolve future, whatever
\* other clone of the marker is dropped.
C20_FlagFollowsHandle ==
    \A t \in TaskIds :
        (tasks[t].st \in {"waiting", "building"} /\ Held(t)) => ~tasks[t].cancel

\* C21: with a builder that returns Cancelled only when it saw the cancel
\* flag set, the result that a job receives from its pending build is never
\* Cancelled, and the driver never runs into its unreachable!() branch.
C21_NoCancelledReceived ==
    \A j \in Jobs :
        /\ jobs[j].st # "panicked"
        /\ (jobs[j].pending # 0 /\ tasks[jobs[j].pending].st = "posted")
              => tasks[jobs[j].pending].res.kind # "Cancelled"

\* C22: a poll of a job with a tick due and no pending build spawns the task
\* and records pending_block in that same poll also when no permit is free,
\* and takes no permit itself; a task enters try_build only from waiting, by
\* taking a free permit.
C22_SpawnDoesNotBlock ==
    [][/\ \A j \in Jobs :
             (/\ Poll(j)
              /\ ~DeadlineReached(j)
              /\ jobs[j].tick
              /\ jobs[j].pending = 0
              /\ permits = 0)
                => /\ jobs'[j].pending # 0
                   /\ tasks[jobs'[j].pending].st = "idle"
                   /\ tasks'[jobs'[j].pending].st = "waiting"
                   /\ tasks'[jobs'[j].pending].job = j
                   /\ permits' = permits
       /\ \A t \in TaskIds :
             (tasks[t].st # "building" /\ tasks'[t].st = "building")
                => /\ tasks[t].st = "waiting"
                   /\ permits > 0
                   /\ permits' = permits - 1]_vars

\* a job has a pending build that waits for a permit while every permit is
\* held by a build inside try_build
C22_Witness ==
    \E j \in Jobs :
        /\ jobs[j].pending # 0
        /\ tasks[jobs[j].pending].st = "waiting"
        /\ permits = 0
        /\ Cardinality(Building) = MaxPayloadTasks

\* C23: a build task that leaves try_build, with an outcome or a failure,
\* gives its permit back; so, when every try_build call ends and the
\* semaphore is fair, every task that waits for a permit starts try_build.
C23_NoPermitLeak ==
    /\ [][\A t \in TaskIds :
             (tasks[t].st = "building" /\ tasks'[t].st # "building")
                => permits' = permits + 1]_vars
    /\ \A t \in TaskIds : (tasks[t].st = "waiting") ~> (tasks[t].st = "building")

\* the second build has the permit that the first build, which failed, gave
\* back
C23_Witness ==
    /\ tasks[1].st \in {"finished", "discarded"}
    /\ tasks[2].st = "building"
    /\ permits = MaxPayloadTasks - 1
    /\ \E j \in Jobs : jobs[j].last = "failed"

\* this step spawns a build task for job j
Spawns(j) ==
    \E t \in TaskIds : tasks[t].st = "idle" /\ tasks'[t].st # "idle" /\ tasks'[t].job = j

\* C24: a poll that consumes a Better or an Aborted outcome resets the
\* interval: no tick is due and a full period is to go, whatever part of the
\* period had elapsed; the poll spawns nothing and leaves no pending build;
\* a build is spawned only by a poll that finds a tick due, and a tick is not
\* due while a full period is to go.
C24_IntervalReset ==
    [][\A j \in Jobs :
          LET p == jobs[j].pending IN
          /\ (/\ Poll(j)
              /\ ~DeadlineReached(j)
              /\ p # 0
              /\ tasks[p].st = "posted"
              /\ tasks[p].res.kind \in {"Better", "Aborted"})
                => /\ ~jobs'[j].tick
                   /\ ~jobs'[j].elapsed
                   /\ jobs'[j].pending = 0
                   /\ NoSpawn(j)
          /\ Spawns(j) => jobs[j].tick /\ jobs[j].pending = 0
          /\ (jobs[j].st = "running" /\ ~jobs[j].tick /\ ~jobs[j].elapsed)
                => ~jobs'[j].tick]_vars

\* a job has consumed an Aborted outcome after a Better one and has a full
\* period to go before its next attempt
C24_Witness ==
    \E j \in Jobs : /\ jobs[j].st = "running"
                    /\ jobs[j].last = "Aborted"
                    /\ jobs[j].best # None
                    /\ jobs[j].pending = 0
                    /\ ~jobs[j].tick
                    /\ ~jobs[j].elapsed

\* C25: a poll that receives a failed attempt leaves the interval as the
\* tick loop left it (a period that had partly elapsed stays partly elapsed)
\* and the job goes on without a pending build; the next poll of
\* the job that finds a tick due, before the deadline, spawns a new attempt
\* for the same job.
C25_RetryOnNextTick ==
    [][\A j \in Jobs :
          LET p == jobs[j].pending IN
          /\ (/\ Poll(j)
              /\ ~DeadlineReached(j)
              /\ p # 0
              /\ tasks[p].st = "posted"
              /\ tasks[p].res.kind \in {"Err", "Closed"})
                => /\ jobs'[j].last = "failed"
                   /\ jobs'[j].pending = 0
                   /\ jobs'[j].st = jobs[j].st
                   /\ ~jobs[j].tick => /\ ~jobs'[j].tick
                                       /\ jobs'[j].elapsed = jobs[j].elapsed
          /\ (/\ Poll(j)
              /\ ~DeadlineReached(j)
              /\ jobs[j].last = "failed"
              /\ jobs[j].pending = 0
              /\ jobs[j].tick)
                => /\ Spawns(j)
                   /\ jobs'[j].pending # 0
                   /\ tasks'[jobs'[j].pending].st = "waiting"]_vars

\* the first attempt of a job failed and the job has spawned its retry
C25_Witness ==
    \E j \in Jobs : /\ jobs[j].last = "failed"
                    /\ jobs[j].best = None
                    /\ jobs[j].prev = None
                    /\ jobs[j].pending # 0
                    /\ tasks[jobs[j].pending].st = "waiting"

\* C26: a build task whose handle was dropped still ends: its try_build
\* returns, its result is thrown away and its permit is given back, and the
\* step changes no job and no resolve future (no best payload, no cached
\* reads, no failure recorded); a result thrown away stays so, and no job or
\* future ever holds a payload or cached reads that came from it.
C26_DiscardedResult ==
    /\ [][\A t \in TaskIds :
            /\ (tasks[t].st = "building" /\ ~Held(t) /\ tasks'[t].st # "building")
                  => /\ tasks'[t] = Discarded
                     /\ permits' = permits + 1
                     /\ jobs' = jobs
                     /\ rf' = rf
            /\ tasks[t].st = "discarded" => tasks'[t] = Discarded]_vars
    /\ [](\A t \in TaskIds : tasks[t].st = "discarded" =>
            \A j \in Jobs :
                /\ jobs[j].pending # t
                /\ rf[j].maybe_better # t
                /\ jobs[j].best # None => jobs[j].best[1].task # t
                /\ jobs[j].cached # None => t \notin jobs[j].cached[1]
                /\ (rf[j].st = "done" /\ rf[j].out.kind = "Better")
                      => rf[j].out.payload.task # t)

\* the resolve future that held the build of a job that is kept alive was
\* dropped, the build ran to its end and was thrown away, the permit is back
\* and the job runs on
C26_Witness ==
    \E t \in TaskIds : \E j \in Jobs :
        /\ tasks[t].st = "discarded"
        /\ jobs[j].st = "running"
        /\ jobs[j].pending # 0
        /\ permits = MaxPayloadTasks

\* every entry of every index file of the directory
AllEntries ==
    {lookup.dir[p][i] : <<p, i>> \in {x \in Paths \X (1..MaxLines) : x[2] <= Len(lookup.dir[x[1]])}}

\* what the iterator has yielded is in non-decreasing transaction-hash order
YieldedInOrder ==
    \A i \in 1..Len(lookup.yielded) : \A k \in 1..Len(lookup.yielded) :
        i < k => lookup.yielded[i][1] <= lookup.yielded[k][1]

\* C27: the iterator of read_iter over index files that are each in
\* ascending transaction-hash order yields its items in non-decreasing
\* transaction-hash order, and once it has returned None it has yielded the
\* entries of all the files.
C27_MergedInOrder ==
    /\ YieldedInOrder
    /\ lookup.st = "done" => {lookup.yielded[i] : i \in 1..Len(lookup.yielded)} = AllEntries

\* C28: while a job holds a pending build, its best_payload is the value that
\* was passed to that build when it was spawned, up to and including the poll
\* that consumes the outcome: no step that leaves the pending build with the
\* job changes the job's best_payload.
C28_BestFixedWhilePending ==
    /\ [](\A j \in Jobs :
            jobs[j].pending # 0 => tasks[jobs[j].pending].best = jobs[j].best)
    /\ [][\A j \in Jobs :
            /\ (jobs[j].pending # 0 /\ jobs'[j].pending = jobs[j].pending)
                  => jobs'[j].best = jobs[j].best
            /\ (/\ Poll(j)
                /\ jobs[j].pending # 0
                /\ jobs'[j].pending = 0)
                  => /\ tasks[jobs[j].pending].st = "posted"
                     /\ tasks[jobs[j].pending].best = jobs[j].best]_vars

\* a job that has a best payload holds a second build that has posted a
\* better one, which its next poll will consume
C28_Witness ==
    \E j \in Jobs :
        /\ jobs[j].st = "running"
        /\ jobs[j].best # None
        /\ jobs[j].pending # 0
        /\ tasks[jobs[j].pending].st = "posted"
        /\ tasks[jobs[j].pending].res.kind = "Better"
        /\ tasks[jobs[j].pending].best = jobs[j].best

\* C29: a resolve future that has not completed holds a stored best payload
\* or an empty-payload receiver, whatever its in-flight build has done, and no
\* poll of it runs into expect("polled after completion").
C29_ResolveNeverPanics ==
    \A j \in Jobs :
        /\ rf[j].st # "panicked"
        /\ rf[j].st = "live" => rf[j].best # None \/ rf[j].empty # "none"

\* a future without a best payload has polled its in-flight build to the end,
\* got nothing better from it and still waits for the empty payload
C29_Witness ==
    \E j \in Jobs : \E t \in TaskIds :
        /\ rf[j].st = "live"
        /\ rf[j].best = None
        /\ rf[j].maybe_better = 0
        /\ rf[j].empty = "running"
        /\ jobs[j].last = "none"
        /\ tasks[t].st = "finished"

\* C30: a resolve future that is polled again and again and is not dropped
\* completes with a payload or an error, provided only that its empty-payload
\* task, if it has one, ends; the in-flight build need not ever finish.
C30_ResolveCompletes ==
    \A j \in Jobs :
        (rf[j].st = "live")
            ~> \/ rf[j].st = "done" /\ rf[j].out.kind \in {"Better", "Err", "Closed"}
               \/ rf[j].st = "none"

\* a future has completed with the empty payload while the build it held is
\* still inside try_build
C30_Witness ==
    \E j \in Jobs : \E t \in TaskIds :
        /\ rf[j].st = "done"
        /\ rf[j].out.kind = "Better"
        /\ rf[j].out.payload.by = "empty"
        /\ tasks[t].job = j
        /\ tasks[t].st = "building"
        /\ tasks[t].cancel

\* how many times the iterator has yielded entry e
TimesYielded(e) ==
    Cardinality({i \in 1..Len(lookup.yielded) : lookup.yielded[i] = e})

\* C31: the iterator of read_iter yields nothing but entries of the index
\* files and no entry twice, and once it has returned None it has yielded
\* every entry of every file exactly once, also when the current entries of
\* two files carry the same transaction hash.
C31_ExactlyOnce ==
    /\ \A i \in 1..Len(lookup.yielded) :
         lookup.yielded[i] \in AllEntries /\ TimesYielded(lookup.yielded[i]) = 1
    /\ lookup.st = "done" => \A e \in AllEntries : TimesYielded(e) = 1

====
